---- MODULE Spec2Model ----
(***************************************************************************)
(* A model of debuginfod-rs (src/src/lib.rs, src/src/main.rs): the startup  *)
(* index build Server::walk with its parallel analyzers, and the lookups    *)
(* served from the index afterwards.                                        *)
(*                                                                          *)
(* Text.  A Rust string is modelled as a sequence of symbols.  A symbol is  *)
(* one character ("/", ".", a hex digit) or an indivisible run of           *)
(* characters that no operation of the program looks inside ("usr",         *)
(* "hello", "-debuginfo", ".debug").  A symbol that begins with a dot and   *)
(* is longer than the dot is a file-name extension together with its dot.   *)
(***************************************************************************)
EXTENDS Integers, Sequences, FiniteSets, TLC

----------------------------------------------------------------------------
(* Option<T> and Result<T, E> *)

None == [some |-> FALSE]

Some(v) == [some |-> TRUE, val |-> v]

----------------------------------------------------------------------------
(* str *)

str_starts_with(s, p) == Len(p) <= Len(s) /\ SubSeq(s, 1, Len(p)) = p

str_ends_with(s, p) ==
    Len(p) <= Len(s) /\ SubSeq(s, Len(s) - Len(p) + 1, Len(s)) = p

str_strip_prefix(s, p) ==
    IF str_starts_with(s, p) THEN Some(SubSeq(s, Len(p) + 1, Len(s))) ELSE None

str_strip_suffix(s, p) ==
    IF str_ends_with(s, p) THEN Some(SubSeq(s, 1, Len(s) - Len(p))) ELSE None

----------------------------------------------------------------------------
(* Program constants *)

DEBUG_INFO_PATH == <<"/", "usr", "/", "lib", "/", "debug">>

DWZ_DEBUG_INFO_PATH == DEBUG_INFO_PATH \o <<"/", ".dwz", "/">>

DEBUG_INFO_BUILD_ID_PATH == DEBUG_INFO_PATH \o <<"/", ".build-id", "/">>

BUILD_ID_ELF_PREFIX == <<3, 0, 0, 0, 71, 78, 85, 0>>

BUILD_CHARS == 20

DWZ_WINDOW == 256

----------------------------------------------------------------------------
(* std::path::Path, on strings of symbols *)

CurDir == <<".">>

ParentDir == <<".", ".">>

path_is_absolute(s) == Len(s) > 0 /\ s[1] = "/"

(* The component s[a..b], if it is one: an empty piece (a doubled or        *)
(* trailing slash) is none, and "." is one only at the very start of a      *)
(* relative path.                                                           *)
Piece(s, a, b) ==
    IF a > b \/ (a > 1 /\ SubSeq(s, a, b) = CurDir) THEN <<>>
    ELSE <<SubSeq(s, a, b)>>

RECURSIVE SplitAt(_, _, _)
(* The components of s from position a on, i being the position read. *)
SplitAt(s, a, i) ==
    IF i > Len(s) THEN Piece(s, a, Len(s))
    ELSE IF s[i] = "/" THEN Piece(s, a, i - 1) \o SplitAt(s, i + 1, i + 1)
    ELSE SplitAt(s, a, i + 1)

(* Path::components, without the root. *)
path_components(s) == SplitAt(s, 1, 1)

RECURSIVE JoinComponents(_)
JoinComponents(cs) ==
    IF cs = <<>> THEN <<>>
    ELSE IF Len(cs) = 1 THEN cs[1]
    ELSE cs[1] \o <<"/">> \o JoinComponents(Tail(cs))

(* The string of a path given by its root flag and components. *)
path_build(abs, cs) == (IF abs THEN <<"/">> ELSE <<>>) \o JoinComponents(cs)

IsPrefix(b, a) == Len(b) <= Len(a) /\ SubSeq(a, 1, Len(b)) = b

(* Path::starts_with: whole components of base are a prefix of those of s. *)
path_starts_with(s, base) ==
    /\ path_is_absolute(s) = path_is_absolute(base)
    /\ IsPrefix(path_components(base), path_components(s))

LastName(cs) ==
    IF cs = <<>> \/ cs[Len(cs)] = ParentDir THEN None ELSE Some(cs[Len(cs)])

(* Path::file_name: the last component unless it is "..". *)
path_file_name(s) == LastName(path_components(s))

AllButLast(abs, cs) ==
    IF cs = <<>> THEN None ELSE Some(path_build(abs, SubSeq(cs, 1, Len(cs) - 1)))

(* Path::parent: the path without its last component. *)
path_parent(s) == AllButLast(path_is_absolute(s), path_components(s))

IsExtSymbol(x) == x \in {".debug", ".rpm", ".txt", ".x86_64"}

HasExt(f) == f.some /\ Len(f.val) > 1 /\ IsExtSymbol(f.val[Len(f.val)])

ExtOf(f) == IF HasExt(f) THEN Some(f.val[Len(f.val)]) ELSE None

(* Path::extension: what follows the last dot of the file name, when the   *)
(* dot is not the first character of the name.                              *)
path_extension(s) == ExtOf(path_file_name(s))

StemOf(f) == IF HasExt(f) THEN Some(SubSeq(f.val, 1, Len(f.val) - 1)) ELSE f

(* Path::file_stem: the file name without its extension. *)
path_file_stem(s) == StemOf(path_file_name(s))

(* Path::join: an absolute argument replaces the path. *)
path_join(s, t) ==
    IF path_is_absolute(t) THEN t
    ELSE IF s = <<>> \/ s[Len(s)] = "/" THEN s \o t
    ELSE s \o <<"/">> \o t

RECURSIVE Dedot(_, _)
(* Collapse "." and ".." lexically; ".." at the root stays at the root. *)
Dedot(cs, acc) ==
    IF cs = <<>> THEN acc
    ELSE IF cs[1] = CurDir THEN Dedot(Tail(cs), acc)
    ELSE IF cs[1] = ParentDir
         THEN Dedot(Tail(cs),
                    IF acc = <<>> THEN acc ELSE SubSeq(acc, 1, Len(acc) - 1))
    ELSE Dedot(Tail(cs), Append(acc, cs[1]))

(* path_absolutize::Absolutize::absolutize of an absolute path. *)
path_absolutize(s) == path_build(TRUE, Dedot(path_components(s), <<>>))

----------------------------------------------------------------------------
(* Build-ids *)

HexDigits == <<"0", "1", "2", "3", "4", "5", "6", "7", "8", "9",
               "a", "b", "c", "d", "e", "f">>

HexUpper == <<"0", "1", "2", "3", "4", "5", "6", "7", "8", "9",
              "A", "B", "C", "D", "E", "F">>

IsHex(c) == \E i \in 1..16 : HexDigits[i] = c \/ HexUpper[i] = c

HexVal(c) == (CHOOSE i \in 1..16 : HexDigits[i] = c \/ HexUpper[i] = c) - 1

(* hex::decode: an odd length or a non-hex character is an error. *)
hex_decode(id) ==
    IF Len(id) % 2 # 0 THEN None
    ELSE IF \E i \in 1..Len(id) : ~IsHex(id[i]) THEN None
    ELSE Some([i \in 1..(Len(id) \div 2) |->
                  16 * HexVal(id[2 * i - 1]) + HexVal(id[2 * i])])

(* A length check that lets shorter arrays through. *)
check_length_at_most(array) ==
    IF ~array.some THEN None
    ELSE IF Len(array.val) > BUILD_CHARS THEN None
    ELSE array

(* lines 382-389: the length check on the decoded bytes. *)
check_length(array) ==
    IF ~array.some THEN None
    ELSE IF Len(array.val) # BUILD_CHARS THEN None
    ELSE array

(* Server::parse_build_id *)
parse_build_id(id) == check_length(hex_decode(id))

----------------------------------------------------------------------------
(* HashMap *)

EmptyMap == [k \in {} |-> None]

(* HashMap::insert: a present key keeps one entry, with the new value. *)
map_insert(m, k, v) == [x \in DOMAIN m \cup {k} |-> IF x = k THEN v ELSE m[x]]

(* HashMap::get *)
map_get(m, k) == IF k \in DOMAIN m THEN Some(m[k]) ELSE None

----------------------------------------------------------------------------
(* An RPM file on disk, as the rpm and cpio libraries present it:           *)
(*   header      "ok", or "bad" when PackageMetadata::parse fails           *)
(*   name, source_rpm, arch   header tags, None when the tag is missing     *)
(*   entries     get_file_entries: records [path, linkto]                   *)
(*   compressor  the payload compressor tag                                 *)
(*   payload     the cpio entries before the trailer: [name, size, data]    *)
(* An I/O or decompression error met while the payload is read is a fault  *)
(* [entry, body, after]: reading fails in the header of cpio entry `entry`  *)
(* (body = FALSE) or in its data after `after` bytes (body = TRUE); entry   *)
(* Len(payload) + 1 is the trailer.                                         *)

NoFault == [entry |-> 0, body |-> FALSE, after |-> 0]

Compressors == {"zstd", "gzip", "bzip2", "xz", "none"}

(* The selectors the program passes to get_rpm_file_stream. *)
SelPrefix(p) == [kind |-> "starts_with", arg |-> p]

SelExact(f) == [kind |-> "eq", arg |-> f]

file_selector(sel, name) ==
    IF sel.kind = "starts_with" THEN str_starts_with(name, sel.arg)
    ELSE name = sel.arg

(* The name as the archive spells it, with nothing stripped. *)
entry_name_raw(raw) == raw

(* lines 272-275: strip one leading '.' *)
entry_name(raw) == IF Len(raw) > 0 /\ raw[1] = "." THEN Tail(raw) ELSE raw

RECURSIVE stream_loop(_, _, _, _)
(* lines 266-285: the loop over the cpio entries, from entry e on. *)
stream_loop(pkg, fault, sel, e) ==
    IF fault.entry = e /\ ~fault.body
    THEN [tag |-> "err"]                       \* NewcReader::new(..)?
    ELSE IF e > Len(pkg.payload)
    THEN [tag |-> "err"]                       \* trailer: file not found
    ELSE LET name == entry_name(pkg.payload[e].name)
         IN  IF file_selector(sel, name) /\ pkg.payload[e].size > 0
             THEN [tag |-> "ok", entry |-> e, name |-> name]
             ELSE IF fault.entry = e /\ fault.body
                  THEN [tag |-> "panic"]       \* archive.finish().unwrap()
                  ELSE stream_loop(pkg, fault, sel, e + 1)

(* Server::get_rpm_file_stream *)
get_rpm_file_stream(pkg, fault, sel) ==
    IF pkg.header # "ok" THEN [tag |-> "err"]
    ELSE IF pkg.compressor \notin Compressors THEN [tag |-> "err"]
    ELSE stream_loop(pkg, fault, sel, 1)

(* The bytes a reader positioned at entry e delivers before it ends or     *)
(* fails, and whether it fails.                                             *)
stream_fails(pkg, fault, e) == fault.entry = e /\ fault.body

stream_bytes(pkg, fault, e) ==
    IF stream_fails(pkg, fault, e)
    THEN SubSeq(pkg.payload[e].data, 1, fault.after)
    ELSE pkg.payload[e].data

(* lines 298-299: a zeroed window, filled by read_exact as far as the      *)
(* stream delivers; its error is dropped.                                   *)
dwz_window(bytes) ==
    [i \in 1..DWZ_WINDOW |-> IF i <= Len(bytes) THEN bytes[i] ELSE 0]

(* lines 300-319: the sliding match over the window. *)
dwz_scan(data) ==
    LET n == Len(data) - Len(BUILD_ID_ELF_PREFIX) - BUILD_CHARS
        hit == {i \in 0..(n - 1) :
                   SubSeq(data, i + 1, i + Len(BUILD_ID_ELF_PREFIX))
                       = BUILD_ID_ELF_PREFIX}
    IN  IF hit = {} THEN None
        ELSE LET i == CHOOSE j \in hit : \A k \in hit : j <= k
             IN  Some(SubSeq(data, i + Len(BUILD_ID_ELF_PREFIX) + 1,
                             i + Len(BUILD_ID_ELF_PREFIX) + BUILD_CHARS))

(* lines 309-311 *)
dwz_found(id, name) ==
    IF id.some THEN Some([build_id |-> id.val, path |-> name]) ELSE None

(* lines 295-322, s being what get_rpm_file_stream returned. *)
dwz_probe(pkg, fault, s) ==
    IF s.tag = "panic" THEN [tag |-> "panic"]
    ELSE IF s.tag = "err" THEN [tag |-> "ok", found |-> None]
    ELSE [tag |-> "ok",
          found |-> dwz_found(dwz_scan(dwz_window(stream_bytes(pkg, fault, s.entry))),
                              s.name)]

(* Server::get_build_id_for_dwz: "panic", or "ok" with an Option of        *)
(* (build_id, path).                                                        *)
get_build_id_for_dwz(pkg, fault) ==
    dwz_probe(pkg, fault,
              get_rpm_file_stream(pkg, fault, SelPrefix(DWZ_DEBUG_INFO_PATH)))

(* lines 196-215: the entry's build-id and link target go into the map     *)
(* when the build-id parses.                                                *)
insert_link(acc, build_id, target) ==
    IF build_id.some
    THEN [acc EXCEPT !.build_ids = map_insert(@, build_id.val, target)]
    ELSE acc

(* lines 181-211, parent, dir and stem being the path's parent, the file   *)
(* name of the parent and the path's file stem.                             *)
scan_link(acc, linkto, parent, dir, stem) ==
    IF ~parent.some \/ ~dir.some \/ ~stem.some
    THEN [acc EXCEPT !.err = TRUE]
    ELSE insert_link(acc, parse_build_id(dir.val \o stem.val),
                     path_absolutize(path_join(parent.val, linkto)))

ParentName(parent) == IF parent.some THEN path_file_name(parent.val) ELSE None

(* lines 176-219: one file entry of a debuginfo package; acc is            *)
(* [build_ids, contains_dwz, err].                                          *)
scan_entry(acc, e) ==
    IF /\ path_starts_with(e.path, DEBUG_INFO_BUILD_ID_PATH)
       /\ path_extension(e.path) = Some(".debug")
    THEN scan_link(acc, e.linkto, path_parent(e.path),
                   ParentName(path_parent(e.path)), path_file_stem(e.path))
    ELSE IF path_starts_with(e.path, DWZ_DEBUG_INFO_PATH)
    THEN [acc EXCEPT !.contains_dwz = TRUE]
    ELSE acc

RECURSIVE scan_entries(_, _, _)
(* lines 175-220: the loop over the header's file entries; an error ends   *)
(* it.                                                                      *)
scan_entries(entries, i, acc) ==
    IF i > Len(entries) \/ acc.err THEN acc
    ELSE scan_entries(entries, i + 1, scan_entry(acc, entries[i]))

(* lines 230-236 *)
rpm_kind(name) ==
    IF str_ends_with(name, <<"-debuginfo">>) THEN "DebugInfo"
    ELSE IF str_ends_with(name, <<"-debugsource">>) THEN "DebugSource"
    ELSE "Binary"

(* line 166 *)
canonical_name(name) ==
    LET s == str_strip_suffix(name, <<"-debuginfo">>)
    IN  IF s.some THEN s.val ELSE name

NoBuildIds == [build_ids |-> EmptyMap, contains_dwz |-> FALSE, err |-> FALSE]

(* lines 224-228 *)
probe_dwz(pkg, fault, scanned) ==
    IF scanned.contains_dwz /\ ~scanned.err
    THEN get_build_id_for_dwz(pkg, fault)
    ELSE [tag |-> "ok", found |-> None]

insert_dwz(m, dwz) ==
    IF dwz.tag = "ok" /\ dwz.found.some
    THEN map_insert(m, dwz.found.val.build_id, dwz.found.val.path)
    ELSE m

(* lines 224-243, scanned being the outcome of the loop over the file      *)
(* entries and dwz that of the dwz probe.                                   *)
analyze_end(pkg, rpm_path, scanned, dwz) ==
    IF scanned.err THEN [tag |-> "err"]
    ELSE IF dwz.tag = "panic" THEN [tag |-> "panic"]
    ELSE [tag |-> "ok",
          rpm |-> [arch |-> pkg.arch.val,
                   source_rpm |-> pkg.source_rpm.val,
                   name |-> canonical_name(pkg.name.val),
                   path |-> rpm_path,
                   kind |-> rpm_kind(pkg.name.val),
                   build_ids |-> insert_dwz(scanned.build_ids, dwz)]]

(* lines 172-228, scanned being the outcome of the loop over the entries. *)
analyze_scanned(pkg, fault, rpm_path, scanned) ==
    analyze_end(pkg, rpm_path, scanned, probe_dwz(pkg, fault, scanned))

(* Server::analyze_file: "ok" with the RPMFile, "err", or "panic" when it  *)
(* unwinds.  build_ids is the payload of RPMKind::DebugInfo, and empty for  *)
(* the other kinds.                                                         *)
analyze_file(pkg, fault, rpm_path) ==
    IF pkg.header # "ok" THEN [tag |-> "err"]
    ELSE IF ~pkg.name.some \/ ~pkg.source_rpm.some \/ ~pkg.arch.some
    THEN [tag |-> "err"]
    ELSE analyze_scanned(pkg, fault, rpm_path,
           IF str_ends_with(pkg.name.val, <<"-debuginfo">>)
           THEN scan_entries(pkg.entries, 1, NoBuildIds)
           ELSE NoBuildIds)

----------------------------------------------------------------------------
(* The input: the directory tree under root_path.                           *)

Rep(c, n) == [i \in 1..n |-> c]

BuildIdDir == DEBUG_INFO_BUILD_ID_PATH \o <<"a", "b">>

(* /usr/lib/debug/.build-id/ab/<38 times c>.debug *)
BuildIdLink(c) == BuildIdDir \o <<"/">> \o Rep(c, 38) \o <<".debug">>

(* The build-id that BuildIdLink(c) spells, for a hex digit c. *)
LinkId(c) == <<171>> \o Rep(17 * HexVal(c), 19)

HelloDebug == DEBUG_INFO_PATH \o <<"/", "usr", "/", "bin", "/", "hello", ".debug">>

LibfooDebug == DEBUG_INFO_PATH \o <<"/", "usr", "/", "lib", "/", "libfoo", ".debug">>

DwzFile == DWZ_DEBUG_INFO_PATH \o <<"libfoo", ".x86_64">>

DwzId == Rep(34, BUILD_CHARS)

(* A dwz image: four bytes of ELF magic, the note signature, the build-id. *)
DwzImage == <<127, 69, 76, 70>> \o BUILD_ID_ELF_PREFIX \o DwzId \o <<0, 0>>

Up == <<".", ".", "/">>

Src1 == <<"hello-1.0", ".src", ".rpm">>

Src2 == <<"hello-2.0", ".src", ".rpm">>

NotRpm == [header |-> "bad", name |-> None, source_rpm |-> None, arch |-> None,
           entries |-> <<>>, compressor |-> "none", payload |-> <<>>]

Package(name, arch, src, entries, payload) ==
    [header |-> "ok", name |-> Some(name), source_rpm |-> Some(src),
     arch |-> Some(arch), entries |-> entries, compressor |-> "zstd",
     payload |-> payload]

File(path, data) == [name |-> <<".">> \o path, size |-> Len(data), data |-> data]

HelloRpm(arch, src) ==
    Package(<<"hello">>, arch, src,
            << [path |-> <<"/", "usr", "/", "bin", "/", "hello">>, linkto |-> <<>>] >>,
            << File(<<"/", "usr", "/", "bin", "/", "hello">>, <<7, 8>>) >>)

(* hello-debuginfo: one build-id link with a relative target, and   *)
(* an entry under .build-id whose name is not hex.                           *)
HelloDebuginfoRpm ==
    Package(<<"hello", "-debuginfo">>, "x86_64", Src1,
            << [path |-> BuildIdLink("0"),
                linkto |-> Up \o Up \o <<"usr", "/", "bin", "/", "hello", ".debug">>],
               [path |-> HelloDebug, linkto |-> <<>>],
               [path |-> BuildIdDir \o <<"/">> \o <<"x", "y", ".debug">>,
                linkto |-> <<>>] >>,
            << File(HelloDebug, <<1, 2, 3>>) >>)

(* libfoo-debuginfo: a link for the build-id hello-debuginfo also has, a   *)
(* link whose absolute target lies outside /usr/lib/debug, and a dwz image *)
(* behind another payload entry.                                            *)
LibfooDebuginfoRpm ==
    Package(<<"libfoo", "-debuginfo">>, "x86_64", Src1,
            << [path |-> BuildIdLink("0"),
                linkto |-> Up \o Up \o <<"usr", "/", ".", "/", "lib", "/",
                                         "libfoo", ".debug">>],
               [path |-> BuildIdLink("1"),
                linkto |-> <<"/", "opt", "/", "libfoo", ".debug">>],
               [path |-> LibfooDebug, linkto |-> <<>>],
               [path |-> DwzFile, linkto |-> <<>>] >>,
            << File(LibfooDebug, <<4, 5>>), File(DwzFile, DwzImage) >>)

DebugsourceRpm(arch, src) ==
    Package(<<"hello", "-debugsource">>, arch, src,
            << [path |-> <<"/", "usr", "/", "src", "/", "hello", ".c">>,
                linkto |-> <<>>] >>,
            << File(<<"/", "usr", "/", "src", "/", "hello", ".c">>, <<9>>) >>)

(* A source RPM: its header has no source-RPM tag. *)
SourceRpm ==
    [Package(<<"hello">>, "src", Src1, <<>>, <<>>) EXCEPT !.source_rpm = None]

(* A node the directory walk yields:                                        *)
(*   walk     "ok", or "err" when WalkDir yields an error for the node      *)
(*   meta     "ok", or "err" when entry.metadata() fails                    *)
(*   is_file, ext, utf8   what the entry's metadata and path say            *)
(*   stat     "ok", or "err" when std::fs::metadata of the path fails       *)
(*   len      the file's size in bytes                                      *)
(*   rpm      the file's content                                            *)
Node(walk, meta, is_file, ext, utf8, stat, rpm) ==
    [walk |-> walk, meta |-> meta, is_file |-> is_file, ext |-> ext,
     utf8 |-> utf8, stat |-> stat, len |-> 1 + Len(rpm.payload), rpm |-> rpm]

RpmNode(rpm) == Node("ok", "ok", TRUE, ".rpm", TRUE, "ok", rpm)

Catalogue ==
    << RpmNode(HelloRpm("x86_64", Src1)),
       RpmNode(HelloRpm("x86_64", Src2)),
       RpmNode(HelloRpm("aarch64", Src1)),
       RpmNode(HelloDebuginfoRpm),
       RpmNode(LibfooDebuginfoRpm),
       RpmNode(DebugsourceRpm("x86_64", Src1)),
       RpmNode(DebugsourceRpm("aarch64", Src1)),
       RpmNode(NotRpm),
       RpmNode(SourceRpm),
       Node("ok", "ok", FALSE, "", TRUE, "ok", NotRpm),
       Node("ok", "ok", TRUE, ".txt", TRUE, "ok", NotRpm),
       Node("ok", "ok", TRUE, ".rpm", FALSE, "ok", NotRpm),
       Node("ok", "ok", TRUE, ".rpm", TRUE, "err", NotRpm),
       Node("ok", "err", TRUE, ".rpm", TRUE, "ok", NotRpm),
       Node("err", "ok", TRUE, ".rpm", TRUE, "ok", NotRpm) >>

(* The faults reading the payload of rpm can meet: none, or one in the      *)
(* header of an entry or of the trailer, or one in an entry's data.         *)
Faults(rpm) ==
    {NoFault}
    \cup {[entry |-> e, body |-> FALSE, after |-> 0] :
             e \in 1..(Len(rpm.payload) + 1)}
    \cup UNION {{[entry |-> e, body |-> TRUE, after |-> k] :
                    k \in {0, rpm.payload[e].size - 1}} :
                e \in {x \in 1..Len(rpm.payload) : rpm.payload[x].size > 0}}

(* analyze_file over the catalogue, tabulated: the result of analyzing the *)
(* c-th catalogue file under each fault, before its path is filled in.      *)
Analyzed ==
    [c \in 1..Len(Catalogue) |->
        [f \in Faults(Catalogue[c].rpm) |-> analyze_file(Catalogue[c].rpm, f, 0)]]

----------------------------------------------------------------------------
(* Server::walk, lines 77-101: the scan *)

MaxFiles == 3

NodeOf(t, i) == Catalogue[t[i]]

(* The path of the i-th node of the tree: paths are distinct, and nothing   *)
(* in the program looks inside the path of an RPM file.                     *)
PathOf(i) == i

(* self.analyze_file(path) for the file at path i of tree t. *)
with_path(r, path) == IF r.tag = "ok" THEN [r EXCEPT !.rpm.path = path] ELSE r

analyze_at(t, i, fault) == with_path(Analyzed[t[i]][fault], PathOf(i))

WarnInvalidPath(i) == [warn |-> "invalid RPM file path", path |-> PathOf(i)]

WarnAnalyze(r) == [warn |-> "could not analyze RPM"]

RECURSIVE scan_tree(_, _, _)
(* lines 78-91: acc is [files, log, panic]. *)
scan_tree(t, i, acc) ==
    IF i > Len(t) \/ acc.panic THEN acc
    ELSE LET n == NodeOf(t, i)
         IN  IF n.walk # "ok" THEN [acc EXCEPT !.panic = TRUE]
             ELSE IF n.meta # "ok" THEN [acc EXCEPT !.panic = TRUE]
             ELSE IF n.is_file /\ n.ext = ".rpm"
                  THEN scan_tree(t, i + 1,
                         IF n.utf8
                         THEN [acc EXCEPT !.files = Append(@, PathOf(i))]
                         ELSE [acc EXCEPT !.log = Append(@, WarnInvalidPath(i))])
                  ELSE scan_tree(t, i + 1, acc)

RECURSIVE sum_len(_, _, _)
(* lines 93-96: None when a metadata read fails. *)
sum_len(t, files, i) ==
    IF i > Len(files) THEN Some(0)
    ELSE LET rest == sum_len(t, files, i + 1)
         IN  IF NodeOf(t, files[i]).stat # "ok" \/ ~rest.some THEN None
             ELSE Some(NodeOf(t, files[i]).len + rest.val)

----------------------------------------------------------------------------
(* Server::walk, lines 109-156: collecting and indexing *)

RECURSIVE collect(_, _, _)
(* lines 109-116: acc is [rpms, log]. *)
collect(items, i, acc) ==
    IF i > Len(items) THEN acc
    ELSE collect(items, i + 1,
           IF items[i].tag = "ok"
           THEN [acc EXCEPT !.rpms = Append(@, items[i].rpm)]
           ELSE [acc EXCEPT !.log = Append(@, WarnAnalyze(items[i]))])

source_key(rpm) == <<rpm.arch, rpm.source_rpm>>

(* A key that leaves the architecture out. *)
binary_key_without_arch(rpm) == <<rpm.source_rpm, rpm.name>>

binary_key(rpm) == <<rpm.arch, rpm.source_rpm, rpm.name>>

RECURSIVE source_rpm_map(_, _, _)
(* lines 120-125 *)
source_rpm_map(rpms, i, m) ==
    IF i > Len(rpms) THEN m
    ELSE source_rpm_map(rpms, i + 1,
           IF rpms[i].kind = "DebugSource"
           THEN map_insert(m, source_key(rpms[i]), rpms[i])
           ELSE m)

RECURSIVE binary_rpm_map(_, _, _)
(* lines 129-134 *)
binary_rpm_map(rpms, i, m) ==
    IF i > Len(rpms) THEN m
    ELSE binary_rpm_map(rpms, i + 1,
           IF rpms[i].kind = "Binary"
           THEN map_insert(m, binary_key(rpms[i]), rpms[i])
           ELSE m)

opt_path(r) == IF r.some THEN Some(r.val.path) ELSE None

(* lines 139-148 *)
new_debug_info(rpm, sources, binaries) ==
    [rpm_path |-> rpm.path,
     binary_rpm_path |-> opt_path(map_get(binaries, binary_key(rpm))),
     source_rpm |-> opt_path(map_get(sources, source_key(rpm))),
     build_id_to_path |-> rpm.build_ids]

(* Every entry of the index, old and new, set to the newest record. *)
index_build_ids_newest(index, keys, arc) == [k \in DOMAIN index \cup keys |-> arc]

(* lines 152-154: a record is named in build_ids by its position in        *)
(* debug_info_rpms, which stands for the shared Arc.                        *)
index_build_ids(index, keys, arc) ==
    [k \in DOMAIN index \cup keys |-> IF k \in keys THEN arc ELSE index[k]]

RECURSIVE build_index(_, _, _, _, _)
(* lines 137-156: acc is [debug_info_rpms, build_ids]. *)
build_index(rpms, i, sources, binaries, acc) ==
    IF i > Len(rpms) THEN acc
    ELSE IF rpms[i].kind = "DebugInfo"
    THEN LET debug_info == new_debug_info(rpms[i], sources, binaries)
             arc == Len(acc.debug_info_rpms) + 1
         IN  build_index(rpms, i + 1, sources, binaries,
               [debug_info_rpms |-> Append(acc.debug_info_rpms, debug_info),
                build_ids |-> index_build_ids(acc.build_ids,
                                DOMAIN debug_info.build_id_to_path, arc)])
    ELSE build_index(rpms, i + 1, sources, binaries, acc)

(* lines 118-156 *)
index_of(rpms) ==
    build_index(rpms, 1, source_rpm_map(rpms, 1, EmptyMap),
                binary_rpm_map(rpms, 1, EmptyMap),
                [debug_info_rpms |-> <<>>, build_ids |-> EmptyMap])

----------------------------------------------------------------------------
(* Lookups *)

(* Server::get_binary_rpm_for_build_id: "ok" with the Option it returns,   *)
(* or "panic" when an unwrap fails.                                         *)
get_binary_rpm_for_build_id(records, index, build_id) ==
    IF build_id \notin DOMAIN index THEN [tag |-> "ok", val |-> None]
    ELSE LET debug_info_rpm == records[index[build_id]]
             stored == map_get(debug_info_rpm.build_id_to_path, build_id)
         IN  IF ~stored.some THEN [tag |-> "ok", val |-> None]
             ELSE LET stem == str_strip_suffix(stored.val, <<".debug">>)
                      filename == IF stem.some
                                  THEN str_strip_prefix(stem.val, DEBUG_INFO_PATH)
                                  ELSE None
                  IN  IF ~stem.some \/ ~filename.some THEN [tag |-> "panic"]
                      ELSE IF debug_info_rpm.binary_rpm_path.some
                      THEN [tag |-> "ok",
                            val |-> Some([rpm |-> debug_info_rpm.binary_rpm_path.val,
                                          file |-> filename.val])]
                      ELSE [tag |-> "ok", val |-> None]

(* lines 345-352, s being what get_rpm_file_stream returned: the error of *)
(* read_to_end is dropped and what was read is returned.                    *)
read_stream(pkg, fault, s) ==
    IF s.tag = "panic" THEN [tag |-> "panic"]
    ELSE IF s.tag = "err" THEN [tag |-> "ok", val |-> None]
    ELSE [tag |-> "ok", val |-> Some(stream_bytes(pkg, fault, s.entry))]

(* Server::read_rpm_file: "ok" with the Option it returns, or "panic". *)
read_rpm_file(pkg, fault, file) ==
    read_stream(pkg, fault, get_rpm_file_stream(pkg, fault, SelExact(file)))

(* Lowercase hex of a byte string, as a client spells a build-id. *)
to_hex(bytes) ==
    [i \in 1..(2 * Len(bytes)) |->
        IF i % 2 = 1 THEN HexDigits[(bytes[(i + 1) \div 2] \div 16) + 1]
        ELSE HexDigits[(bytes[i \div 2] % 16) + 1]]

(* The build-ids clients ask for: those the catalogue holds, and one it    *)
(* does not.                                                                *)
AskedIds == {LinkId("0"), LinkId("1"), DwzId, Rep(0, BUILD_CHARS)}

AskedStrings == {to_hex(id) : id \in AskedIds} \cup {<<"n", "o">>}

----------------------------------------------------------------------------
(* The state *)

VARIABLES
    tree,             \* the nodes under root_path, in walk order (catalogue numbers)
    pc,               \* where Server::walk is: scan, analyze, index, done, panicked
    files,            \* walk's files
    total_byte_size,  \* Server.total_byte_size
    pending,          \* the items of files.par_iter() no worker has taken
    panicking,        \* a worker's closure has panicked
    chan,             \* the channel's queue
    rpms,             \* walk's rpms
    log,              \* the warnings logged
    debug_info_rpms,  \* Server.debug_info_rpms
    build_ids,        \* Server.build_ids
    response          \* the outcome of the last lookup

vars == <<tree, pc, files, total_byte_size, pending, panicking, chan, rpms,
          log, debug_info_rpms, build_ids, response>>

IsSorted(t) == \A i \in 1..(Len(t) - 1) : t[i] <= t[i + 1]

(* Trees of at most MaxFiles nodes.  The order of the nodes only names the  *)
(* files, so one order stands for each multiset of nodes.                   *)
Trees ==
    {t \in UNION {[1..n -> 1..Len(Catalogue)] : n \in 0..MaxFiles} : IsSorted(t)}

(* Before any lookup. *)
NoResponse == [op |-> "none", id |-> <<>>, req |-> None, out |-> [tag |-> "ok", val |-> None]]

(* Server::new *)
Init ==
    /\ tree \in Trees
    /\ pc = "scan"
    /\ files = <<>>
    /\ total_byte_size = 0
    /\ pending = {}
    /\ panicking = FALSE
    /\ chan = <<>>
    /\ rpms = <<>>
    /\ log = <<>>
    /\ debug_info_rpms = <<>>
    /\ build_ids = EmptyMap
    /\ response = NoResponse

(* lines 77-101, found being the outcome of the loop over the walk and     *)
(* size the sum of the file sizes.                                          *)
ScanEnd(found, size) ==
    /\ files' = found.files
    /\ log' = found.log
    /\ IF found.panic \/ ~size.some
       THEN /\ pc' = "panicked"
            /\ UNCHANGED <<total_byte_size, pending>>
       ELSE /\ pc' = "analyze"
            /\ total_byte_size' = size.val
            /\ pending' = 1..Len(found.files)

ScanFound(found) == ScanEnd(found, sum_len(tree, found.files, 1))

(* walk, lines 77-101: the directory walk and the size sum.  An unwrap of  *)
(* an error unwinds out of walk.                                            *)
Scan ==
    /\ pc = "scan"
    /\ ScanFound(scan_tree(tree, 1, [files |-> <<>>, log |-> <<>>, panic |-> FALSE]))
    /\ UNCHANGED <<tree, panicking, chan, rpms, debug_info_rpms, build_ids, response>>

(* line 106: the result goes to the channel; a panic of analyze_file       *)
(* leaves nothing there.                                                    *)
Send(r) ==
    IF r.tag = "panic"
    THEN /\ panicking' = TRUE
         /\ chan' = chan
    ELSE /\ chan' = Append(chan, r)
         /\ panicking' = panicking

(* walk, lines 105-107: one item of the parallel iterator: a worker        *)
(* analyzes the file and sends the result.                                  *)
Worker(i) ==
    /\ pc = "analyze"
    /\ i \in pending
    /\ \E fault \in Faults(NodeOf(tree, files[i]).rpm) :
          Send(analyze_at(tree, files[i], fault))
    /\ pending' = pending \ {i}
    /\ UNCHANGED <<tree, pc, files, total_byte_size, rpms, log,
                   debug_info_rpms, build_ids, response>>

(* walk, line 105: for_each_with resumes a worker's panic in walk; items   *)
(* not yet taken may be left out.                                           *)
Unwind ==
    /\ pc = "analyze"
    /\ panicking
    /\ pc' = "panicked"
    /\ UNCHANGED <<tree, files, total_byte_size, pending, panicking, chan,
                   rpms, log, debug_info_rpms, build_ids, response>>

(* walk, lines 109-116: for_each_with has returned and dropped every       *)
(* sender; the receiver drains the channel.                                 *)
Collect ==
    /\ pc = "analyze"
    /\ pending = {}
    /\ ~panicking
    /\ rpms' = collect(chan, 1, [rpms |-> <<>>, log |-> log]).rpms
    /\ log' = collect(chan, 1, [rpms |-> <<>>, log |-> log]).log
    /\ chan' = <<>>
    /\ pc' = "index"
    /\ UNCHANGED <<tree, files, total_byte_size, pending, panicking,
                   debug_info_rpms, build_ids, response>>

(* walk, lines 118-156 *)
BuildIndex ==
    /\ pc = "index"
    /\ debug_info_rpms' = index_of(rpms).debug_info_rpms
    /\ build_ids' = index_of(rpms).build_ids
    /\ pc' = "done"
    /\ UNCHANGED <<tree, files, total_byte_size, pending, panicking, chan,
                   rpms, log, response>>

(* A call of Server::get_binary_rpm_for_build_id on the built index. *)
GetBinaryRpm(id) ==
    /\ pc = "done"
    /\ response' = [op |-> "get_binary_rpm_for_build_id", id |-> id, req |-> None,
                    out |-> get_binary_rpm_for_build_id(debug_info_rpms, build_ids, id)]
    /\ UNCHANGED <<tree, pc, files, total_byte_size, pending, panicking, chan,
                   rpms, log, debug_info_rpms, build_ids>>

(* parse_build_id over the strings clients send, tabulated. *)
Parsed == [s \in AskedStrings |-> parse_build_id(s)]

(* main.rs, the route /buildid/<build_id>/debuginfo, up to its call of     *)
(* read_rpm_file: "read" with the arguments of the call, or the outcome.    *)
debuginfo(build_id) ==
    LET id == Parsed[build_id]
    IN  IF ~id.some \/ id.val \notin DOMAIN build_ids
        THEN [tag |-> "ok", val |-> None]
        ELSE LET debug_info_rpm == debug_info_rpms[build_ids[id.val]]
             IN  IF id.val \notin DOMAIN debug_info_rpm.build_id_to_path
                 THEN [tag |-> "panic"]
                 ELSE [tag |-> "read", rpm |-> debug_info_rpm.rpm_path,
                       file |-> debug_info_rpm.build_id_to_path[id.val]]

(* main.rs, the route /buildid/<build_id>/executable, up to its call of    *)
(* read_rpm_file; lines 368-379 are get_binary_rpm_for_build_id inlined.    *)
executable(build_id) ==
    LET id == Parsed[build_id]
    IN  IF ~id.some THEN [tag |-> "ok", val |-> None]
        ELSE LET found == get_binary_rpm_for_build_id(debug_info_rpms, build_ids, id.val)
             IN  IF found.tag = "panic" \/ ~found.val.some THEN found
                 ELSE [tag |-> "read", rpm |-> found.val.val.rpm,
                       file |-> found.val.val.file]

(* The call of read_rpm_file a route ends with, if it does. *)
ReadOf(req) ==
    IF req.tag = "read" THEN Some([rpm |-> req.rpm, file |-> req.file]) ELSE None

(* A route's answers: what it decided before reading, or what              *)
(* read_rpm_file returns under some fault of the file it reads.             *)
Answers(req) ==
    IF req.tag # "read" THEN {req}
    ELSE {read_rpm_file(NodeOf(tree, req.rpm).rpm, fault, req.file) :
             fault \in Faults(NodeOf(tree, req.rpm).rpm)}

Respond(op, s, req) ==
    \E out \in Answers(req) :
        response' = [op |-> op, id |-> s, req |-> ReadOf(req), out |-> out]

Debuginfo(s) ==
    /\ pc = "done"
    /\ Respond("debuginfo", s, debuginfo(s))
    /\ UNCHANGED <<tree, pc, files, total_byte_size, pending, panicking, chan,
                   rpms, log, debug_info_rpms, build_ids>>

Executable(s) ==
    /\ pc = "done"
    /\ Respond("executable", s, executable(s))
    /\ UNCHANGED <<tree, pc, files, total_byte_size, pending, panicking, chan,
                   rpms, log, debug_info_rpms, build_ids>>

(* Server::walk *)
Next ==
    \/ Scan
    \/ \E i \in pending : Worker(i)
    \/ Unwind
    \/ Collect
    \/ BuildIndex

Spec == Init /\ [][Next]_vars

(* The packages the lookups are exercised on: a binary, the two debuginfo  *)
(* packages and a debugsource package.                                      *)
ServeTrees == {t \in Trees : \A i \in 1..Len(t) : t[i] \in {1, 4, 5, 6}}

InitServe == Init /\ tree \in ServeTrees

(* Server::walk, then the lookups on the index it built. *)
NextServe ==
    \/ Scan
    \/ \E i \in pending : Worker(i)
    \/ Unwind
    \/ Collect
    \/ BuildIndex
    \/ \E id \in AskedIds : GetBinaryRpm(id)
    \/ \E s \in AskedStrings : Debuginfo(s)
    \/ \E s \in AskedStrings : Executable(s)

SpecServe == InitServe /\ [][NextServe]_vars

----------------------------------------------------------------------------
(* Server::parse_build_id on its own, over the strings a caller can pass.   *)

MaxCut == 2

ParseBytes == {0, 9, 10, 171, 255}

(* 20-byte build-ids: a first byte and nineteen equal bytes. *)
ParseIds == {<<a>> \o Rep(b, BUILD_CHARS - 1) : a \in ParseBytes, b \in ParseBytes}

(* The upper-case spelling of a hex string. *)
to_upper(s) ==
    [i \in 1..Len(s) |->
        IF \E k \in 1..16 : HexDigits[k] = s[i]
        THEN HexUpper[CHOOSE k \in 1..16 : HexDigits[k] = s[i]]
        ELSE s[i]]

(* The strings parse_build_id is called with: the lower-case and the        *)
(* upper-case hex of a build-id, the hex with one character that is not a   *)
(* hex digit, the hex cut short or extended by up to MaxCut characters,     *)
(* and the empty string.                                                    *)
ParseInputs ==
    LET hex == {to_hex(b) : b \in ParseIds}
    IN  hex
        \cup {to_upper(s) : s \in hex}
        \cup {[s EXCEPT ![p] = c] : s \in hex, p \in {1, 2, 2 * BUILD_CHARS},
                                     c \in {"g", "-"}}
        \cup {SubSeq(s, 1, Len(s) - k) : s \in hex, k \in 1..MaxCut}
        \cup {s \o Rep("0", k) : s \in hex, k \in 1..MaxCut}
        \cup {<<>>}

(* A call of Server::parse_build_id; it reads no state of the server. *)
ParseBuildId(s) ==
    /\ response' = [op |-> "parse_build_id", id |-> s, req |-> None,
                    out |-> parse_build_id(s)]
    /\ UNCHANGED <<tree, pc, files, total_byte_size, pending, panicking, chan,
                   rpms, log, debug_info_rpms, build_ids>>

InitParse == Init /\ tree = <<>>

NextParse == \E s \in ParseInputs : ParseBuildId(s)

SpecParse == InitParse /\ [][NextParse]_vars

----------------------------------------------------------------------------
(* Server::analyze_file on its own, over debuginfo packages whose build-id  *)
(* links and dwz entries vary.                                              *)

MaxUp == 5

(* k times "../" *)
Ups(k) == [i \in 1..(3 * k) |-> Up[((i - 1) % 3) + 1]]

(* What a relative link target reads after its leading "../"s. *)
LinkTails ==
    { <<"usr", "/", "bin", "/", "hello", ".debug">>,
      <<".", "/", "hello", ".debug">>,
      <<"x", "/", ".", ".", "/", "hello", ".debug">>,
      <<"bin", "/">>,
      <<>> }

(* Link targets: relative ones with 0..MaxUp leading "../", and absolute    *)
(* ones, with and without "." and ".." segments.                            *)
LinkTargets ==
    {Ups(k) \o t : k \in 0..MaxUp, t \in LinkTails}
    \cup { <<"/", "opt", "/", "libfoo", ".debug">>,
           <<"/", "opt", "/", ".", "/", "a", "/", ".", ".", "/", "libfoo", ".debug">>,
           <<"/", ".", ".", "/", "libfoo", ".debug">> }

(* Paths of build-id links: directly under .build-id/ab, and one level     *)
(* further down.                                                            *)
LinkPaths ==
    { BuildIdLink("0"),
      DEBUG_INFO_BUILD_ID_PATH \o <<"x", "/", "a", "b", "/">> \o Rep("0", 38)
          \o <<".debug">> }

(* Names of dwz files in the payload, as the cpio archive spells them      *)
(* after the leading '.': the usual one, and spellings with a "." or a      *)
(* ".." segment.                                                            *)
DwzNames ==
    { DwzFile,
      DWZ_DEBUG_INFO_PATH \o <<".", "/", "libfoo", ".x86_64">>,
      DWZ_DEBUG_INFO_PATH \o Up \o <<"libfoo", ".x86_64">> }

LinkPackage(path, linkto, entries, payload) ==
    Package(<<"libfoo", "-debuginfo">>, "x86_64", Src1,
            << [path |-> path, linkto |-> linkto] >> \o entries, payload)

AnalyzeInputs ==
    {LinkPackage(path, linkto, <<>>, <<>>) :
        path \in LinkPaths, linkto \in LinkTargets}
    \cup {LinkPackage(path, linkto, << [path |-> n, linkto |-> <<>>] >>,
                      << File(n, DwzImage) >>) :
             path \in LinkPaths, linkto \in LinkTargets, n \in DwzNames}

(* analyze_file over these packages, tabulated. *)
AnalyzedInputs ==
    [p \in AnalyzeInputs |-> [f \in Faults(p) |-> analyze_file(p, f, 0)]]

(* A call of Server::analyze_file. *)
AnalyzeFile(p) ==
    /\ \E fault \in Faults(p) :
           response' = [op |-> "analyze_file", id |-> p, req |-> None,
                        out |-> AnalyzedInputs[p][fault]]
    /\ UNCHANGED <<tree, pc, files, total_byte_size, pending, panicking, chan,
                   rpms, log, debug_info_rpms, build_ids>>

InitAnalyze == Init /\ tree = <<>>

NextAnalyze == \E p \in AnalyzeInputs : AnalyzeFile(p)

SpecAnalyze == InitAnalyze /\ [][NextAnalyze]_vars

----------------------------------------------------------------------------
(* Server::get_build_id_for_dwz on its own, over dwz images whose note     *)
(* lies at every offset of the window and beyond it.                        *)

MaxOffset == 232

OtherId == Rep(51, BUILD_CHARS)

(* An image of at least n bytes: the bytes given, then filler. *)
PadTo(bytes, n) ==
    bytes \o Rep(1, IF Len(bytes) < n THEN n - Len(bytes) ELSE 0)

(* The signature and the build-id id at offset i. *)
NoteAt(i, id) == Rep(1, i) \o BUILD_ID_ELF_PREFIX \o id

(* The images: a note at offset i in a file that fills the window, the     *)
(* same in a file that ends with the note, two notes, and no note.          *)
DwzImages ==
    {PadTo(NoteAt(i, DwzId), DWZ_WINDOW + 2) : i \in 0..MaxOffset}
    \cup {NoteAt(i, DwzId) : i \in 0..MaxOffset}
    \cup {PadTo(NoteAt(i, DwzId) \o NoteAt(3, OtherId), DWZ_WINDOW) :
             i \in {0, 100, 190}}
    \cup {Rep(1, DWZ_WINDOW), <<>> \o Rep(1, 3)}

DwzPackage(img) ==
    Package(<<"libfoo", "-debuginfo">>, "x86_64", Src1,
            << [path |-> DwzFile, linkto |-> <<>>] >>,
            << File(LibfooDebug, <<4, 5>>), File(DwzFile, img) >>)

(* get_build_id_for_dwz over these images, tabulated. *)
DwzProbed ==
    [img \in DwzImages |-> get_build_id_for_dwz(DwzPackage(img), NoFault)]

(* A call of Server::get_build_id_for_dwz on a package read without error. *)
DwzProbe(img) ==
    /\ response' = [op |-> "get_build_id_for_dwz", id |-> img, req |-> None,
                    out |-> DwzProbed[img]]
    /\ UNCHANGED <<tree, pc, files, total_byte_size, pending, panicking, chan,
                   rpms, log, debug_info_rpms, build_ids>>

InitDwz == Init /\ tree = <<>>

NextDwz == \E img \in DwzImages : DwzProbe(img)

SpecDwz == InitDwz /\ [][NextDwz]_vars

----------------------------------------------------------------------------
(* Server::get_rpm_file_stream on its own, over payloads of a few entries  *)
(* and the two kinds of selector the program passes.                        *)

MaxEntries == 3

Entry(name, data) == [name |-> name, size |-> Len(data), data |-> data]

(* Payload entries: names with one leading '.', with none and with two,    *)
(* with data and empty.                                                     *)
Entries ==
    { Entry(<<".", "/", "a">>, <<1>>),
      Entry(<<".", "/", "a">>, <<>>),
      Entry(<<"/", "a">>, <<2>>),
      Entry(<<".", ".", "/", "a">>, <<3>>),
      Entry(<<".", "/", "b">>, <<4>>),
      Entry(<<".">> \o DwzFile, <<5, 6>>),
      Entry(<<".">> \o DwzFile, <<>>) }

Payloads == UNION {[1..n -> Entries] : n \in 0..MaxEntries}

Selectors ==
    { SelExact(<<"/", "a">>), SelExact(<<".", "/", "a">>),
      SelPrefix(DWZ_DEBUG_INFO_PATH) }

StreamPackage(payload) == Package(<<"p">>, "x86_64", Src1, <<>>, payload)

(* The calls: a package, a selector, and the fault its reading meets. *)
StreamCalls ==
    {[payload |-> payload, sel |-> sel, fault |-> fault] :
        payload \in Payloads, sel \in Selectors,
        fault \in UNION {Faults(StreamPackage(q)) : q \in Payloads}}

Calling(c) ==
    [op |-> "get_rpm_file_stream", id |-> c, req |-> None, out |-> [tag |-> "call"]]

(* A call of Server::get_rpm_file_stream returns. *)
GetRpmFileStream ==
    /\ response.op = "get_rpm_file_stream"
    /\ response.out.tag = "call"
    /\ response' = [response EXCEPT !.out =
                       get_rpm_file_stream(StreamPackage(response.id.payload),
                                           response.id.fault, response.id.sel)]
    /\ UNCHANGED <<tree, pc, files, total_byte_size, pending, panicking, chan,
                   rpms, log, debug_info_rpms, build_ids>>

InitStream ==
    /\ tree = <<>>
    /\ pc = "scan"
    /\ files = <<>>
    /\ total_byte_size = 0
    /\ pending = {}
    /\ panicking = FALSE
    /\ chan = <<>>
    /\ rpms = <<>>
    /\ log = <<>>
    /\ debug_info_rpms = <<>>
    /\ build_ids = EmptyMap
    /\ \E c \in StreamCalls :
           /\ c.fault \in Faults(StreamPackage(c.payload))
           /\ response = Calling(c)

NextStream == GetRpmFileStream

SpecStream == InitStream /\ [][NextStream]_vars

----------------------------------------------------------------------------
(* Properties *)

Records == 1..Len(debug_info_rpms)

(* The records whose build_id_to_path has the key k. *)
Owners(k) == {r \in Records : k \in DOMAIN debug_info_rpms[r].build_id_to_path}

AllKeys == UNION {DOMAIN debug_info_rpms[r].build_id_to_path : r \in Records}

Largest(S) == CHOOSE x \in S : \A y \in S : y <= x

Logged(what) == \E j \in 1..Len(log) : log[j].warn = what

(* C1: after walk, every key of every record's build_id_to_path is mapped  *)
(* by build_ids to that very record.                                        *)
C1_RecordKeysMapToRecord ==
    pc = "done" =>
        \A r \in Records :
            \A k \in DOMAIN debug_info_rpms[r].build_id_to_path :
                k \in DOMAIN build_ids /\ build_ids[k] = r

(* C2: after walk, every entry k -> r of build_ids names a record of       *)
(* debug_info_rpms, and that record's build_id_to_path has the key k.       *)
C2_IndexEntriesWellFormed ==
    pc = "done" =>
        \A k \in DOMAIN build_ids :
            /\ build_ids[k] \in Records
            /\ map_get(debug_info_rpms[build_ids[k]].build_id_to_path, k).some

(* A build-id that two records hold is in the index. *)
C2_Witness ==
    /\ pc = "done"
    /\ \E k \in DOMAIN build_ids : Cardinality(Owners(k)) >= 2

(* What the index holds, apart from the order of the records: the record   *)
(* each build-id resolves to, and the records.                              *)
Content(records, index) ==
    [by_id |-> [k \in DOMAIN index |-> records[index[k]]],
     records |-> {records[r] : r \in 1..Len(records)}]

ContentOf(built) == Content(built.debug_info_rpms, built.build_ids)

Orders(n) == {p \in [1..n -> 1..n] : \A i, j \in 1..n : p[i] = p[j] => i = j}

(* C3: the index walk builds is the one any other arrival order of the     *)
(* same results builds.                                                     *)
C3_OrderIndependent ==
    pc = "done" =>
        \A p \in Orders(Len(rpms)) :
            ContentOf(index_of([i \in 1..Len(rpms) |-> rpms[p[i]]]))
                = Content(debug_info_rpms, build_ids)

(* The files of the scanned list that analyze_file returns an error for,   *)
(* whatever the payload does.                                               *)
Failing == {i \in 1..Len(files) : \A f \in Faults(NodeOf(tree, files[i]).rpm) :
               analyze_at(tree, files[i], f).tag = "err"}

(* C4: no failure of analyze_file unwinds out of its worker into walk;     *)
(* when walk is done every scanned file has given a package or a warning,   *)
(* and a failing file has given no record.                                  *)
C4_FailureIsolation ==
    /\ ~panicking
    /\ pc = "done" =>
        /\ Len(rpms) + Cardinality({j \in 1..Len(log) :
                                      log[j].warn = "could not analyze RPM"})
               = Len(files)
        /\ \A i \in Failing : \A r \in Records :
               debug_info_rpms[r].rpm_path # files[i]

(* The stored path with the /usr/lib/debug prefix and the .debug suffix    *)
(* removed, when it has both.                                               *)
Stripped(path) ==
    IF str_ends_with(path, <<".debug">>) /\ str_starts_with(path, DEBUG_INFO_PATH)
    THEN Some(SubSeq(path, Len(DEBUG_INFO_PATH) + 1, Len(path) - 1))
    ELSE None

(* C5: get_binary_rpm_for_build_id returns a value for every build-id:     *)
(* none when the build-id is not indexed or its record has no binary        *)
(* sibling, else the binary RPM and the stripped path.                      *)
C5_ExecutableLookupReturns ==
    response.op = "get_binary_rpm_for_build_id" =>
        /\ response.out.tag = "ok"
        /\ IF response.id \notin DOMAIN build_ids
           THEN response.out.val = None
           ELSE IF ~debug_info_rpms[build_ids[response.id]].binary_rpm_path.some
           THEN response.out.val = None
           ELSE /\ response.out.val.some
                /\ response.out.val.val.rpm
                     = debug_info_rpms[build_ids[response.id]].binary_rpm_path.val
                /\ Some(response.out.val.val.file)
                     = Stripped(debug_info_rpms[build_ids[response.id]]
                                    .build_id_to_path[response.id])

(* The data of the payload entry read_rpm_file(rpm, file) selects. *)
Selected(rpm, file) ==
    LET hits == {e \in 1..Len(rpm.payload) :
                    entry_name(rpm.payload[e].name) = file /\ rpm.payload[e].size > 0}
    IN  IF hits = {} THEN None
        ELSE Some(rpm.payload[CHOOSE e \in hits : \A x \in hits : e <= x].data)

(* C6: what read_rpm_file returns is the whole content of the selected     *)
(* entry, or none.                                                          *)
C6_ReadIsWholeOrNone ==
    (response.req.some /\ response.out.tag = "ok" /\ response.out.val.some) =>
        response.out.val
            = Selected(NodeOf(tree, response.req.val.rpm).rpm, response.req.val.file)

(* The regular files of the tree with extension rpm and a UTF-8 path, but  *)
(* for the nodes the walk cannot read.                                      *)
ValidRpmFiles ==
    {i \in 1..Len(tree) :
        /\ NodeOf(tree, i).walk = "ok" /\ NodeOf(tree, i).meta = "ok"
        /\ NodeOf(tree, i).is_file /\ NodeOf(tree, i).ext = ".rpm"
        /\ NodeOf(tree, i).utf8}

(* C7: the scan does not fail on an invalid node, and collects every other *)
(* regular file with extension rpm.                                         *)
C7_ScanSkipsInvalidNodes ==
    /\ (pc = "panicked" => panicking)
    /\ (pc \in {"analyze", "index", "done"} =>
            {files[i] : i \in 1..Len(files)} = ValidRpmFiles)

OfKind(kind) == {i \in 1..Len(rpms) : rpms[i].kind = kind}

(* The collected Binary packages with the (arch, source_rpm, name) of d. *)
BinariesFor(d) ==
    {b \in OfKind("Binary") : /\ rpms[b].arch = rpms[d].arch
                              /\ rpms[b].source_rpm = rpms[d].source_rpm
                              /\ rpms[b].name = rpms[d].name}

(* The collected DebugSource packages with the (arch, source_rpm) of d. *)
SourcesFor(d) ==
    {b \in OfKind("DebugSource") : /\ rpms[b].arch = rpms[d].arch
                                   /\ rpms[b].source_rpm = rpms[d].source_rpm}

RecordsOf(d) == {r \in Records : debug_info_rpms[r].rpm_path = rpms[d].path}

Linked(field, S) ==
    /\ field.some <=> S # {}
    /\ field.some => field.val \in {rpms[b].path : b \in S}

(* C8: every analyzed DebugInfo package has one record; its binary_rpm_path *)
(* is set exactly when a Binary package shares its (arch, source_rpm, name), *)
(* to such a package's path, and its source_rpm exactly when a DebugSource  *)
(* package shares its (arch, source_rpm), to such a package's path.         *)
C8_Correlation ==
    pc = "done" =>
        \A d \in OfKind("DebugInfo") :
            /\ Cardinality(RecordsOf(d)) = 1
            /\ \A r \in RecordsOf(d) :
                  /\ Linked(debug_info_rpms[r].binary_rpm_path, BinariesFor(d))
                  /\ Linked(debug_info_rpms[r].source_rpm, SourcesFor(d))

(* A record that has both siblings. *)
C8_Witness ==
    /\ pc = "done"
    /\ \E r \in Records : /\ debug_info_rpms[r].binary_rpm_path.some
                          /\ debug_info_rpms[r].source_rpm.some

(* C9: a build-id that several debuginfo packages hold ends mapped to the  *)
(* record of the last of them in collection order, and the duplicate is     *)
(* logged.                                                                  *)
C9_DuplicateLastWinsAndWarns ==
    pc = "done" =>
        \A k \in AllKeys :
            Cardinality(Owners(k)) > 1 =>
                /\ build_ids[k] = Largest(Owners(k))
                /\ Logged("duplicate build-id")

(* C10: of several Binary packages with one (arch, source_rpm, name) the   *)
(* last collected is the one a matching record names, and the collision is  *)
(* logged.                                                                  *)
C10_BinaryTieLastWinsAndWarns ==
    pc = "done" =>
        \A b \in OfKind("Binary") :
            (\E c \in OfKind("Binary") : c # b /\ binary_key(rpms[c]) = binary_key(rpms[b])) =>
                /\ Logged("duplicate binary package")
                /\ \A d \in OfKind("DebugInfo") : \A r \in RecordsOf(d) :
                      b \in BinariesFor(d) =>
                          debug_info_rpms[r].binary_rpm_path
                              = Some(rpms[Largest(BinariesFor(d))].path)

(* C11: parse_build_id is strict and round-trips: called with the           *)
(* lower-case hex of a 20-byte id it returns that id, and called with a     *)
(* string that holds a character that is not a hex digit, or whose hex      *)
(* decoding is not exactly 20 bytes long, it returns an error.              *)
C11_ParseStrictRoundTrip ==
    response.op = "parse_build_id" =>
        /\ \A b \in ParseIds : response.id = to_hex(b) => response.out = Some(b)
        /\ (\/ \E i \in 1..Len(response.id) : ~IsHex(response.id[i])
            \/ Len(response.id) # 2 * BUILD_CHARS) => response.out = None

C11_Witness ==
    /\ response.op = "parse_build_id"
    /\ response.id = to_hex(<<171>> \o Rep(9, BUILD_CHARS - 1))
    /\ response.out = Some(<<171>> \o Rep(9, BUILD_CHARS - 1))

(* parse_build_id has turned down a string one character short. *)
C11_WitnessShort ==
    /\ response.op = "parse_build_id"
    /\ Len(response.id) = 2 * BUILD_CHARS - 1
    /\ response.out = None

(* The segments of a path string: what stands between its slashes. *)
Segments(s) ==
    {SubSeq(s, a, b) : a \in 1..Len(s), b \in 1..Len(s)} \cap
    {SubSeq(s, x[1], x[2]) :
        x \in {y \in (1..Len(s)) \X (1..Len(s)) :
                  /\ y[1] <= y[2]
                  /\ (y[1] = 1 \/ s[y[1] - 1] = "/")
                  /\ (y[2] = Len(s) \/ s[y[2] + 1] = "/")
                  /\ \A i \in y[1]..y[2] : s[i] # "/"}}

CleanPath(s) ==
    /\ Len(s) > 0 /\ s[1] = "/"
    /\ <<".">> \notin Segments(s)
    /\ <<".", ".">> \notin Segments(s)

(* The build-id of the link of the package analyzed, and that of its dwz   *)
(* image.                                                                   *)
StoredFor(k) ==
    /\ response.op = "analyze_file"
    /\ response.out.tag = "ok"
    /\ k \in DOMAIN response.out.rpm.build_ids

(* C12: every path stored as a value of build_id_to_path is absolute and   *)
(* has no "." or ".." segment, whether it is the resolved target of a       *)
(* build-id link or the path the dwz probe recorded.                        *)
C12_StoredPathsClean ==
    \A k \in {LinkId("0"), DwzId} :
        StoredFor(k) => CleanPath(response.out.rpm.build_ids[k])

(* The half of C12 about link targets. *)
C12_LinkTargetsClean ==
    StoredFor(LinkId("0")) => CleanPath(response.out.rpm.build_ids[LinkId("0")])

C12_LinkResolved ==
    /\ StoredFor(LinkId("0"))
    /\ response.id.entries[1].linkto = Ups(2) \o <<"usr", "/", "bin", "/", "hello", ".debug">>
    /\ response.out.rpm.build_ids[LinkId("0")]
           = <<"/", "usr", "/", "lib", "/", "debug", "/", "usr", "/", "bin", "/", "hello", ".debug">>

(* The offsets i of an image at which the signature and the 20 bytes after *)
(* it lie within the first 256 bytes of the file.                           *)
NoteOffsets(img) ==
    {i \in 0..(DWZ_WINDOW - Len(BUILD_ID_ELF_PREFIX) - BUILD_CHARS) :
        /\ i + Len(BUILD_ID_ELF_PREFIX) + BUILD_CHARS <= Len(img)
        /\ SubSeq(img, i + 1, i + Len(BUILD_ID_ELF_PREFIX)) = BUILD_ID_ELF_PREFIX}

Smallest(S) == CHOOSE i \in S : \A j \in S : i <= j

IdAt(img, i) ==
    SubSeq(img, i + Len(BUILD_ID_ELF_PREFIX) + 1,
           i + Len(BUILD_ID_ELF_PREFIX) + BUILD_CHARS)

Probed == response.op = "get_build_id_for_dwz" /\ response.out.tag = "ok"

(* C13: whenever the signature and the 20 bytes after it lie within the    *)
(* first 256 bytes of the dwz file at some offset 0..228, the probe returns *)
(* the 20 bytes after the signature at the smallest such offset, with the   *)
(* file's path; it returns nothing only when there is no such offset.       *)
C13_ProbeFindsNoteInWindow ==
    (Probed /\ NoteOffsets(response.id) # {}) =>
        response.out.found
            = Some([build_id |-> IdAt(response.id, Smallest(NoteOffsets(response.id))),
                    path |-> DwzFile])

(* The same for the offsets the loop visits. *)
C13_ProbeFindsNoteBeforeLast ==
    (/\ Probed
     /\ NoteOffsets(response.id) # {}
     /\ Smallest(NoteOffsets(response.id))
            < DWZ_WINDOW - Len(BUILD_ID_ELF_PREFIX) - BUILD_CHARS) =>
        response.out.found
            = Some([build_id |-> IdAt(response.id, Smallest(NoteOffsets(response.id))),
                    path |-> DwzFile])

(* Nothing is returned when no offset qualifies. *)
C13_NothingWithoutNote ==
    (Probed /\ NoteOffsets(response.id) = {}) => response.out.found = None

(* The scanned files whose worker has finished, and the warnings the       *)
(* collector has logged.                                                    *)
Finished == (1..Len(files)) \ pending

AnalyzeWarnings == {j \in 1..Len(log) : log[j].warn = "could not analyze RPM"}

(* C14: every scanned file is analyzed once and puts exactly one result on *)
(* the channel; the collector receives all of them; and nothing is put      *)
(* into debug_info_rpms or build_ids before every worker has finished.      *)
C14_FanIn ==
    /\ pc = "analyze" => Len(chan) = Cardinality(Finished)
    /\ pc \in {"index", "done"} =>
           /\ pending = {}
           /\ Len(rpms) + Cardinality(AnalyzeWarnings) = Len(files)
    /\ (debug_info_rpms # <<>> \/ build_ids # EmptyMap) =>
           (pending = {} /\ chan = <<>> /\ pc = "done")

(* The same in the runs where no worker has panicked. *)
C14_FanInUnlessPanic ==
    ~panicking => C14_FanIn

(* The index is empty until the collector has drained the channel. *)
C14_NoEarlyIndex ==
    (debug_info_rpms # <<>> \/ build_ids # EmptyMap) =>
        (pending = {} /\ chan = <<>> /\ pc = "done")

(* A worker has finished and left nothing on the channel. *)
C14_LostResult ==
    pc = "analyze" /\ Len(chan) < Cardinality(Finished)

(* An entry's name without one leading '.', and whether a selector takes   *)
(* a name.                                                                  *)
Normalized(raw) ==
    IF Len(raw) >= 1 /\ raw[1] = "." THEN SubSeq(raw, 2, Len(raw)) ELSE raw

Takes(sel, name) ==
    IF sel.kind = "eq" THEN name = sel.arg
    ELSE /\ Len(name) >= Len(sel.arg)
         /\ \A i \in 1..Len(sel.arg) : name[i] = sel.arg[i]

(* The entries of a call's payload that the selector takes and that are    *)
(* not empty.                                                               *)
Matching(c) ==
    {e \in 1..Len(c.payload) :
        /\ Takes(c.sel, Normalized(c.payload[e].name))
        /\ c.payload[e].size > 0}

Returned == response.op = "get_rpm_file_stream" /\ response.out.tag # "call"

(* C15: get_rpm_file_stream returns the first entry in archive order whose *)
(* name, one leading '.' stripped, the selector takes and whose size is not *)
(* zero, with that name; the entries before it are passed over; and when    *)
(* the payload has no such entry, an empty file of the right name           *)
(* included, it signals not found.                                          *)
C15_FirstNonEmptyMatch ==
    Returned =>
        /\ response.out.tag = "ok" =>
              /\ Matching(response.id) # {}
              /\ response.out.entry = Smallest(Matching(response.id))
              /\ response.out.name
                     = Normalized(response.id.payload[response.out.entry].name)
        /\ response.id.fault = NoFault =>
              response.out.tag = (IF Matching(response.id) = {} THEN "err" ELSE "ok")

(* The match is the third entry, behind an empty file of the same name and *)
(* an entry of another name.                                                *)
C15_Witness ==
    /\ Returned
    /\ response.id.fault = NoFault
    /\ response.id.sel = SelExact(<<"/", "a">>)
    /\ response.id.payload = << Entry(<<".", "/", "a">>, <<>>),
                                Entry(<<".", ".", "/", "a">>, <<3>>),
                                Entry(<<".", "/", "a">>, <<1>>) >>
    /\ response.out = [tag |-> "ok", entry |-> 3, name |-> <<"/", "a">>]

(* An empty file of the name asked for is reported as not found. *)
C15_EmptyNotFound ==
    /\ Returned
    /\ response.id.fault = NoFault
    /\ response.id.sel = SelExact(<<"/", "a">>)
    /\ response.id.payload = << Entry(<<".", "/", "a">>, <<>>) >>
    /\ response.out.tag = "err"

============================================================================
